---- MODULE Spec2Model ----
(***************************************************************************)
(* miner-vis.py: the commit graph of a window of burn blocks, the marking  *)
(* of winners and of the canonical chain, the fork-choice prediction of    *)
(* the next tip, and the run-lock of the observer's new_block endpoint.    *)
(*                                                                         *)
(* One analysis run (run_command_line, one block count) is the pipeline    *)
(*   get_block_commits_with_parents -> mark_canonical_blocks ->            *)
(*   mark_next_tip                                                         *)
(* whose loops advance one iteration per action.  The rows of the sqlite   *)
(* tables are inputs: each is drawn when the code reads it and, where a    *)
(* property speaks about it, recorded in the variable of the table's name. *)
(*                                                                         *)
(* Beside the run stand the builder on the records of a forked burnchain   *)
(* (SpecBuild), compute_stats on the counters of a group (SpecStats), and  *)
(* successive calls of send_high_spend_alerts on one stored configuration  *)
(* (SpecAlerts).                                                           *)
(***************************************************************************)
EXTENDS Integers, Sequences, FiniteSets, TLC

\* ------------------------------------------------------------------ bounds
\* Burn height the window ends at (args.at_tip / get_tip).
StartBlock == 102
\* num_blocks: the window is [StartBlock - NumBlocks, StartBlock].
NumBlocks == 2
\* Most records of a freely drawn window.
MaxCommits == 3
\* Most requests the observer receives.
MaxRequests == 3
\* Most calls of send_high_spend_alerts.
MaxCalls == 2
\* Largest stacks_block_height a snapshot row reports.
MaxStacksHeight == 2

\* Python's None, for Commit.parent, Commit.stacks_height and Commit.block_hash.
None == -1
\* A txid / hash that belongs to no record of the window.
Absent == 0
\* The local block_hash of mark_canonical_blocks before its first assignment.
Unbound == -2

Requests == 1..MaxRequests
Heights == (StartBlock - NumBlocks)..StartBlock
\* burn_fee values of freely drawn records.
Spends == {1000}
\* burn_fee values of the records of a forked burnchain.
ReorgSpends == {1000, 2000}
\* miner_config.get("max_fork_depth", 3)
DefaultForkDepth == 3
\* max_fork_depth values a configuration holds.
ForkDepths == {1, DefaultForkDepth}

Max(S) == CHOOSE x \in S : \A y \in S : y <= x
Min(S) == CHOOSE x \in S : \A y \in S : x <= y

VARIABLES
    fixture,          \* which record source the run reads: "any" or a scenario
    pc,               \* position of the run in run_command_line
    error,            \* the exception that ended the run, "" if none
    commits,          \* dict block_header_hash -> Commit, in insertion order
    parent_hashes,    \* dict (block_height, vtxindex) -> block_header_hash
    sortition_sats,   \* dict sortition_id -> total burn_fee
    last_height,      \* block_height of the last record fetched (ORDER BY)
    snapshots,        \* snapshots rows read so far, by block_height
    payments,         \* payments lookups made so far, by consensus_hash
    block_headers,    \* block_headers lookups made so far, by block_hash
    rounds,           \* burn heights still to process, ascending
    block_height,     \* the burn height of the round being marked
    todo,             \* commits of the current round still to visit
    block_hash,       \* the local block_hash of mark_canonical_blocks
    canonical_tip,    \* return value of mark_canonical_blocks
    tip,              \* the walking variable of the canonical walk
    max_fork_depth,   \* D of mark_next_tip
    tips,             \* candidate tips of mark_next_tip, in dict order
    scores,           \* scores of get_score_to_common_ancestor, by tip hash
    pointer,          \* the variable commit of the alignment loop
    tips_at_same_height, \* walking pointers, one per tip already aligned
    walk_steps,       \* parent links followed by get_score_to_common_ancestor
    lock,             \* the Lock of run_server: TRUE while held
    request,          \* position of each new_block request in its handler
    response,         \* status code each request was answered with, 0 if none yet
    ran,              \* requests that have called run_command_line
    contended,        \* requests whose lock.acquire found the lock held
    stats,            \* the raw counters of one group handed to compute_stats
    num_blocks,       \* the second argument of compute_stats
    computed,         \* the dict compute_stats returned, empty before the call
    chain_spend,      \* spend of each group at each burn height of the chain
    miner_config,     \* the stored configuration, as far as the alerts use it
    alert_pc,         \* position of send_high_spend_alerts: "idle" or "loop"
    start_block,      \* the local start_block of send_high_spend_alerts
    pending,          \* (group, block_height, spend) still to iterate, in order
    posted,           \* (group, block_height) pairs an alert was POSTed for
    reposted,         \* pairs an alert was POSTed for more than once
    calls             \* calls of send_high_spend_alerts made so far

\* The state of one analysis run.
runVars == <<fixture, pc, error, commits, parent_hashes, sortition_sats,
             last_height, snapshots, payments, block_headers, rounds,
             block_height, todo, block_hash, canonical_tip, tip, max_fork_depth, tips, scores,
             pointer, tips_at_same_height, walk_steps>>

\* The state of the observer's endpoint.
serverVars == <<lock, request, response, ran, contended>>

\* The state of compute_stats.
statsVars == <<stats, num_blocks, computed>>

\* The state of send_high_spend_alerts and of the configuration it stores.
alertVars == <<chain_spend, miner_config, alert_pc, start_block, pending,
               posted, reposted, calls>>

\* The state of the rollups and alerts that follow the analysis.
reportVars == <<statsVars, alertVars>>

vars == <<runVars, serverVars, reportVars>>

\* ------------------------------------------------------------ class Commit
Commit(block_header_hash, txid, burn_block_height, spend, sortition_id, parent) ==
    [ block_header_hash |-> block_header_hash,
      txid              |-> txid,
      burn_block_height |-> burn_block_height,
      spend             |-> spend,
      sortition_id      |-> sortition_id,
      parent            |-> parent,
      stacks_height     |-> None,
      block_hash        |-> None,
      won               |-> FALSE,
      canonical         |-> FALSE,
      tip               |-> FALSE,
      coinbase_earned   |-> 0,
      fees_earned       |-> 0,
      read_length       |-> 0,
      read_count        |-> 0,
      write_length      |-> 0,
      write_count       |-> 0,
      runtime           |-> 0,
      block_size        |-> 0,
      potential_tip     |-> FALSE,
      next_tip          |-> FALSE ]

\* Keys of the dict commits.  A header hash is named after the place in the
\* scan of the first record that carries it, so the dict is the sequence of its
\* values in insertion order.
Hashes == 1..Len(commits)

\* commits.get(h): None for a missing key (None itself is no key).
Get(h) == IF h \in Hashes THEN h ELSE None

\* dict.get with a default.
DictGet(d, k, default) == IF k \in DOMAIN d THEN d[k] ELSE default

\* d[k] = v on a dict held as a function.
DictSet(d, k, v) == [x \in DOMAIN d \cup {k} |-> IF x = k THEN v ELSE d[x]]

\* ---------------------------------------------------------- record source
\* A row of block_commits.
RawCommit(h, txid, sid, vtx, height, fee, pptr, pvtx) ==
    [ block_header_hash |-> h, txid |-> txid, sortition_id |-> sid,
      vtxindex |-> vtx, block_height |-> height, burn_fee |-> fee,
      parent_block_ptr |-> pptr, parent_vtxindex |-> pvtx ]

\* The scenario window: A at 100; B, C at 101; D, E at 102.  cParent is the
\* parent_block_ptr of C: 100 names A, 99 lies below the window.
ScenarioRows(cParent) ==
    << RawCommit(1, 1, 100, 0, 100, 1000, 99, 0),
       RawCommit(2, 2, 101, 0, 101, 2000, 100, 0),
       RawCommit(3, 3, 101, 1, 101, 500, cParent, 0),
       RawCommit(4, 4, 102, 0, 102, 3000, 101, 0),
       RawCommit(5, 5, 102, 1, 102, 100, 101, 0) >>

Fixtures == {"any", "scenarioA", "scenarioNone"}

\* The record source of a burnchain that forked: block_commits keeps a row per
\* (txid, sortition_id), so a commit mined again on the other fork is a second
\* row with the header hash and txid of a row already fetched.
Reorg == "reorg"

FixtureRows(f) == IF f = "scenarioA" THEN ScenarioRows(100) ELSE ScenarioRows(99)

\* vtxindex values already used at a height.
UsedVtx(height) == {k[2] : k \in {x \in DOMAIN parent_hashes : x[1] = height}}

\* Rows a freely drawn window can hold after the rows already fetched:
\* block_height ascending (ORDER BY block_height ASC) and within the window
\* (BETWEEN); header hash, txid and (block_height, vtxindex) unique; the
\* parent pointer names a burn block below the record's own.
FreeRows ==
    UNION { { RawCommit(Len(commits) + 1, Len(commits) + 1, height,
                        Cardinality(UsedVtx(height)), height, fee, pptr, pvtx) :
                fee \in Spends,
                pptr \in (StartBlock - NumBlocks - 1)..(height - 1),
                pvtx \in 0..1 } :
            height \in {x \in Heights : x >= last_height} }

\* Rows of a forked burnchain after the rows already fetched: as FreeRows,
\* but the header hash and txid are new or those of an earlier row, and the
\* burn_fee varies.
ReorgRows ==
    UNION { { RawCommit(h, h, height, Cardinality(UsedVtx(height)), height,
                        fee, pptr, pvtx) :
                h \in 1..(Len(commits) + 1),
                fee \in ReorgSpends,
                pptr \in (StartBlock - NumBlocks - 1)..(height - 1),
                pvtx \in 0..1 } :
            height \in {x \in Heights : x >= last_height} }

\* The rows the cursor can yield next.
NextRows ==
    IF fixture = "any"
    THEN IF Len(commits) >= MaxCommits THEN {} ELSE FreeRows
    ELSE IF fixture = Reorg
    THEN IF Cardinality(DOMAIN parent_hashes) >= MaxCommits THEN {} ELSE ReorgRows
    ELSE IF Len(commits) >= Len(FixtureRows(fixture)) THEN {}
         ELSE { FixtureRows(fixture)[Len(commits) + 1] }

\* Whether the cursor can be exhausted here: a free window ends anywhere, a
\* scenario window after its last row.
Exhausted == fixture \in {"any", Reorg} \/ NextRows = {}

\* ------------------------------------------------------------------- Init
\* compute_stats has not been called and has no arguments.
StatsIdle ==
    /\ stats = <<>>
    /\ num_blocks = None
    /\ computed = <<>>

\* send_high_spend_alerts has not been called: the configuration file holds
\* no last_alert_block_high yet.
AlertsStart ==
    /\ miner_config = <<>>
    /\ alert_pc = "idle"
    /\ start_block = None
    /\ pending = <<>>
    /\ posted = {}
    /\ reposted = {}
    /\ calls = 0

\* No alerts are looked at: the chain's spend is not read.
AlertsIdle ==
    /\ chain_spend = <<>>
    /\ AlertsStart

\* The analysis run before its first step.
RunIdle ==
    /\ pc = "build"
    /\ error = ""
    /\ commits = <<>>
    /\ parent_hashes = <<>>
    /\ sortition_sats = <<>>
    /\ last_height = StartBlock - NumBlocks
    /\ snapshots = <<>>
    /\ payments = <<>>
    /\ block_headers = <<>>
    /\ rounds = <<>>
    /\ block_height = None
    /\ todo = <<>>
    /\ block_hash = Unbound
    /\ canonical_tip = None
    /\ tip = None
    /\ max_fork_depth = None
    /\ tips = <<>>
    /\ scores = <<>>
    /\ pointer = None
    /\ tips_at_same_height = <<>>
    /\ walk_steps = 0

\* The observer before its first request: Lock() is free.
ServerIdle ==
    /\ lock = FALSE
    /\ request = [r \in Requests |-> "idle"]
    /\ response = [r \in Requests |-> 0]
    /\ ran = {}
    /\ contended = {}

Init ==
    /\ fixture \in Fixtures
    /\ RunIdle
    /\ ServerIdle
    /\ StatsIdle
    /\ AlertsIdle

\* The run ends with an uncaught exception.
Raise(exc) == pc' = "failed" /\ error' = exc

\* The parent index read by vtxindex alone.
ParentOfAnyHeight(row) ==
    LET keys == {k \in DOMAIN parent_hashes : k[2] = row.parent_vtxindex}
    IN IF keys = {} THEN None
       ELSE parent_hashes[CHOOSE k \in keys : \A j \in keys : j[1] <= k[1]]

\* --------------------------------------- get_block_commits_with_parents
\* parent_hashes.get((parent_block_ptr, parent_vtxindex))
ParentOf(row) ==
    DictGet(parent_hashes, <<row.parent_block_ptr, row.parent_vtxindex>>, None)

\* commits[block_header_hash] = Commit(...): a new key is appended, a key the
\* dict holds keeps its place and gets the new value.
CommitsSet(cs, c) ==
    IF c.block_header_hash \in 1..Len(cs)
    THEN [cs EXCEPT ![c.block_header_hash] = c]
    ELSE Append(cs, c)

\* One iteration of the loop over raw_commits.
BuildStep ==
    /\ pc = "build"
    /\ \E row \in NextRows :
        /\ commits' = CommitsSet(commits,
                  Commit(row.block_header_hash, row.txid, row.block_height,
                         row.burn_fee, row.sortition_id, ParentOf(row)))
        /\ parent_hashes' = DictSet(parent_hashes,
                  <<row.block_height, row.vtxindex>>, row.block_header_hash)
        /\ sortition_sats' = DictSet(sortition_sats, row.sortition_id,
                  DictGet(sortition_sats, row.sortition_id, 0) + row.burn_fee)
        /\ last_height' = row.block_height
    /\ UNCHANGED <<fixture, pc, error, snapshots, payments, rounds, block_height,
                   todo, block_hash, canonical_tip, tip, max_fork_depth, tips,
                   scores, pointer, tips_at_same_height, walk_steps>>
    /\ UNCHANGED <<block_headers, serverVars, reportVars>>

\* sorted(set(commit.burn_block_height for commit in commits.values()))
RECURSIVE SortedHeights(_)
SortedHeights(S) ==
    IF S = {} THEN <<>> ELSE <<Min(S)>> \o SortedHeights(S \ {Min(S)})

\* filter(lambda x: x.burn_block_height == block_height, commits.values())
RECURSIVE FilterHeight(_, _)
FilterHeight(h, height) ==
    IF h > Len(commits) THEN <<>>
    ELSE (IF commits[h].burn_block_height = height THEN <<h>> ELSE <<>>)
         \o FilterHeight(h + 1, height)

\* The loop over raw_commits ends; the function returns commits and
\* sortition_sats and mark_canonical_blocks starts its loop over the heights.
BuildReturn ==
    /\ pc = "build"
    /\ Exhausted
    /\ pc' = "mark"
    /\ rounds' = SortedHeights({commits[h].burn_block_height : h \in Hashes})
    /\ parent_hashes' = <<>>
    /\ last_height' = StartBlock - NumBlocks
    /\ UNCHANGED <<fixture, error, commits, sortition_sats, snapshots, payments,
                   block_height, todo, block_hash, canonical_tip, tip,
                   max_fork_depth, tips, scores, pointer, tips_at_same_height,
                   walk_steps>>
    /\ UNCHANGED <<block_headers, serverVars, reportVars>>

NextBuild ==
    \/ BuildStep
    \/ BuildReturn

\* The window of a forked burnchain.
InitBuild ==
    /\ fixture = Reorg
    /\ RunIdle
    /\ ServerIdle
    /\ StatsIdle
    /\ AlertsIdle

\* get_block_commits_with_parents on the records of a forked burnchain.
SpecBuild == InitBuild /\ [][NextBuild]_vars

\* ------------------------------------------------- mark_canonical_blocks
\* The tables the marker reads.  The key of a row stands for its content:
\* the consensus_hash of a snapshot and the block_hash of a payments row are
\* named after the burn height of their round, and the amounts of a row are
\* fixed non-zero functions of its key, so a field tells which row filled it.
ConsensusHash(height) == height
PaymentRow(consensus_hash) ==
    [ block_hash |-> consensus_hash, coinbase |-> 10 * consensus_hash,
      tx_fees_anchored |-> consensus_hash, tx_fees_streamed |-> 1 ]
HeaderRow(bhash) ==
    [ read_length |-> 2 * bhash, read_count |-> 3 * bhash,
      write_length |-> 4 * bhash, write_count |-> 5 * bhash,
      runtime |-> 6 * bhash, block_size |-> 7 * bhash ]

\* txids a snapshot row can name as the winner of a height: a commit of that
\* height, or a transaction the window does not hold.  In the scenario B wins
\* 101, D wins 102 and no commit of the window wins 100.
Winners(height) ==
    IF fixture = "any"
    THEN {commits[h].txid : h \in {x \in Hashes : commits[x].burn_block_height = height}}
         \cup {Absent}
    ELSE IF height = 101 THEN {2} ELSE IF height = 102 THEN {4} ELSE {Absent}

\* The snapshots rows the query of a height can return.
SnapshotRows(height) ==
    { [ winning_block_txid |-> w, stacks_block_height |-> sh,
        consensus_hash |-> ConsensusHash(height) ] :
      w \in Winners(height), sh \in 0..MaxStacksHeight }

\* The head of the loop over the heights: the snapshots row of the next height
\* is fetched and unpacked; a missing row (fetchone() is None) cannot be
\* unpacked.  The scenario's outcome source holds a row for each of its heights.
RoundBegin ==
    /\ pc = "mark"
    /\ todo = <<>>
    /\ rounds # <<>>
    /\ \/ /\ \E row \in SnapshotRows(Head(rounds)) :
                snapshots' = DictSet(snapshots, Head(rounds), row)
          /\ block_height' = Head(rounds)
          /\ todo' = FilterHeight(1, Head(rounds))
          /\ rounds' = Tail(rounds)
          /\ UNCHANGED <<pc, error>>
       \/ /\ fixture = "any"
          /\ Raise("TypeError")
          /\ UNCHANGED <<snapshots, block_height, todo, rounds>>
    /\ UNCHANGED <<fixture, commits, parent_hashes, sortition_sats, last_height,
                   payments, block_hash, canonical_tip, tip, max_fork_depth,
                   tips, scores, pointer, tips_at_same_height, walk_steps>>
    /\ UNCHANGED <<block_headers, serverVars, reportVars>>

\* The winner test that reads the round, not the transaction: every commit
\* of the height the snapshots row belongs to passes.
IsWinnerOfHeight(snap, c) ==
    snap.consensus_hash = ConsensusHash(commits[c].burn_block_height)

\* The winner test that compares nothing of the commit.
IsWinnerAny(snap, c) == snap.winning_block_txid # Absent

\* winning_block_txid == commit.txid
IsWinner(snap, c) == snap.winning_block_txid = commits[c].txid

\* The marking that leaves the winner's parent as it is.
MarkWinnerKeepsParent(cs, c, stacks_height) ==
    [cs EXCEPT ![c].won = TRUE, ![c].potential_tip = TRUE,
               ![c].stacks_height = stacks_height]

\* The marking that clears won, not potential_tip, of the winner's parent.
MarkWinnerClearsWon(cs, c, stacks_height) ==
    LET won == [cs EXCEPT ![c].won = TRUE, ![c].potential_tip = TRUE,
                          ![c].stacks_height = stacks_height]
    IN IF cs[c].parent # None /\ cs[c].parent \in Hashes
       THEN [won EXCEPT ![cs[c].parent].won = FALSE]
       ELSE won

\* commit.won, commit.potential_tip, commit.stacks_height of the winner, and
\* the parent of the winner is no longer a potential tip.
MarkWinner(cs, c, stacks_height) ==
    LET won == [cs EXCEPT ![c].won = TRUE, ![c].potential_tip = TRUE,
                          ![c].stacks_height = stacks_height]
    IN IF cs[c].parent # None /\ cs[c].parent \in Hashes
       THEN [won EXCEPT ![cs[c].parent].potential_tip = FALSE]
       ELSE won

\* The fields taken from a payments row.
SetPayment(cs, c, row) ==
    [cs EXCEPT ![c].block_hash = row.block_hash,
               ![c].coinbase_earned = row.coinbase,
               ![c].fees_earned = row.tx_fees_anchored + row.tx_fees_streamed]

\* The fields taken from a block_headers row.
SetCosts(cs, c, row) ==
    [cs EXCEPT ![c].read_length = row.read_length,
               ![c].read_count = row.read_count,
               ![c].write_length = row.write_length,
               ![c].write_count = row.write_count,
               ![c].runtime = row.runtime,
               ![c].block_size = row.block_size]

\* What the block_headers query of a block_hash can return: a row or none,
\* and what it returned before when the table was already asked for it.
HeaderResults(bhash) ==
    IF bhash \in DOMAIN block_headers THEN {block_headers[bhash]} ELSE {"row", "none"}

\* One iteration of the loop over the commits of the round, for the winner.
MarkCommitWon ==
    /\ pc = "mark"
    /\ todo # <<>>
    /\ LET c == Head(todo)
           snap == snapshots[block_height]
           won == MarkWinner(commits, c, snap.stacks_block_height)
       IN /\ IsWinner(snap, c)
          /\ IF snap.stacks_block_height > 0
             THEN \E result \in {"row", "none"} :
                    LET paid == IF result = "row"
                                THEN SetPayment(won, c, PaymentRow(snap.consensus_hash))
                                ELSE won
                        bhash == IF result = "row"
                                 THEN PaymentRow(snap.consensus_hash).block_hash
                                 ELSE block_hash
                    IN /\ payments' = DictSet(payments, snap.consensus_hash, result)
                       /\ block_hash' = bhash
                       /\ IF bhash = Unbound
                          THEN /\ commits' = paid
                               /\ Raise("UnboundLocalError")
                               /\ UNCHANGED <<todo, block_headers>>
                          ELSE /\ \E headers \in HeaderResults(bhash) :
                                     /\ block_headers' = DictSet(block_headers, bhash, headers)
                                     /\ commits' = IF headers = "row"
                                                   THEN SetCosts(paid, c, HeaderRow(bhash))
                                                   ELSE paid
                               /\ todo' = Tail(todo)
                               /\ UNCHANGED <<pc, error>>
             ELSE /\ commits' = won
                  /\ todo' = Tail(todo)
                  /\ UNCHANGED <<pc, error, payments, block_headers, block_hash>>
    /\ UNCHANGED <<fixture, parent_hashes, sortition_sats, last_height, snapshots,
                   rounds, block_height, canonical_tip, tip, max_fork_depth,
                   tips, scores, pointer, tips_at_same_height, walk_steps>>
    /\ UNCHANGED <<serverVars, reportVars>>

\* One iteration of the loop over the commits of the round, for a commit that
\* is not the winner: parent_commit.stacks_height + 1, which is no number when
\* the parent has no stacks_height.
MarkCommitLost ==
    /\ pc = "mark"
    /\ todo # <<>>
    /\ LET c == Head(todo)
           snap == snapshots[block_height]
           parent == commits[c].parent
       IN /\ ~IsWinner(snap, c)
          /\ IF parent # None /\ parent \in Hashes
             THEN IF commits[parent].stacks_height = None
                  THEN /\ Raise("TypeError")
                       /\ UNCHANGED <<commits, todo>>
                  ELSE /\ commits' = [commits EXCEPT ![c].stacks_height =
                                          commits[parent].stacks_height + 1]
                       /\ todo' = Tail(todo)
                       /\ UNCHANGED <<pc, error>>
             ELSE /\ todo' = Tail(todo)
                  /\ UNCHANGED <<pc, error, commits>>
    /\ UNCHANGED <<fixture, parent_hashes, sortition_sats, last_height, snapshots,
                   payments, rounds, block_height, block_hash, canonical_tip, tip,
                   max_fork_depth, tips, scores, pointer, tips_at_same_height,
                   walk_steps>>
    /\ UNCHANGED <<block_headers, serverVars, reportVars>>

\* Hashes snapshots can hold as canonical_stacks_tip_hash of start_block: a
\* commit of the window or a block the window does not hold.  In the scenario
\* the declared tip is D.
TipHashes == IF fixture = "any" THEN Hashes \cup {Absent} ELSE {4}

\* After the loop: the declared tip is read and marked; commits[canonical_tip]
\* raises KeyError when the window does not hold it.
MarkTip ==
    /\ pc = "mark"
    /\ todo = <<>>
    /\ rounds = <<>>
    /\ \E t \in TipHashes :
        /\ canonical_tip' = t
        /\ IF t \in Hashes
           THEN /\ commits' = [commits EXCEPT ![t].tip = TRUE]
                /\ tip' = t
                /\ pc' = "walk"
                /\ UNCHANGED error
           ELSE /\ Raise("KeyError")
                /\ UNCHANGED <<commits, tip>>
    /\ block_height' = None
    /\ block_hash' = Unbound
    /\ UNCHANGED <<fixture, parent_hashes, sortition_sats, last_height, snapshots,
                   payments, rounds, todo, max_fork_depth, tips, scores, pointer,
                   tips_at_same_height, walk_steps>>
    /\ UNCHANGED <<block_headers, serverVars, reportVars>>

\* The walk that stops after the tip.
WalkParentOnce(t) == None

\* tip = commits[tip].parent
WalkParent(t) == commits[t].parent

\* One iteration of "while tip:".
WalkStep ==
    /\ pc = "walk"
    /\ tip # None
    /\ commits' = [commits EXCEPT ![tip].canonical = TRUE]
    /\ tip' = WalkParent(tip)
    /\ UNCHANGED <<fixture, pc, error, parent_hashes, sortition_sats, last_height,
                   snapshots, payments, rounds, block_height, todo, block_hash,
                   canonical_tip, max_fork_depth, tips, scores, pointer,
                   tips_at_same_height, walk_steps>>
    /\ UNCHANGED <<block_headers, serverVars, reportVars>>

\* The walk ends and mark_canonical_blocks returns canonical_tip.
WalkReturn ==
    /\ pc = "walk"
    /\ tip = None
    /\ pc' = "next_tip"
    /\ UNCHANGED <<fixture, error, commits, parent_hashes, sortition_sats,
                   last_height, snapshots, payments, rounds, block_height, todo,
                   block_hash, canonical_tip, tip, max_fork_depth, tips, scores,
                   pointer, tips_at_same_height, walk_steps>>
    /\ UNCHANGED <<block_headers, serverVars, reportVars>>

\* The candidates without the fork depth test.
RECURSIVE CandidatesAnyDepth(_, _)
CandidatesAnyDepth(h, lowest) ==
    IF h > Len(commits) THEN <<>>
    ELSE (IF commits[h].potential_tip THEN <<h>> ELSE <<>>)
         \o CandidatesAnyDepth(h + 1, lowest)

\* ------------------------------------- mark_next_tip, get_score_to_common_ancestor
\* The commits from h on, in dict order, with potential_tip and a
\* stacks_height of at least lowest (the loop of mark_next_tip).
RECURSIVE Candidates(_, _)
Candidates(h, lowest) ==
    IF h > Len(commits) THEN <<>>
    ELSE (IF commits[h].potential_tip /\ commits[h].stacks_height >= lowest
          THEN <<h>> ELSE <<>>)
         \o Candidates(h + 1, lowest)

\* min_height and max_height of get_score_to_common_ancestor.
TipHeights == {commits[tips[i]].stacks_height : i \in 1..Len(tips)}
min_height == Min(TipHeights)
max_height == Max(TipHeights)

\* commit.burn_block_height - commit.stacks_height
Term(h) == commits[h].burn_block_height - commits[h].stacks_height

\* mark_next_tip up to the call of get_score_to_common_ancestor, and the head
\* of that function: the candidates are collected; without candidates there
\* are no scores and no prediction.
ScoreBegin ==
    /\ pc = "next_tip"
    /\ \E d \in ForkDepths :
        /\ max_fork_depth' = d
        /\ IF commits[canonical_tip].stacks_height = None
           THEN /\ Raise("TypeError")
                /\ UNCHANGED tips
           ELSE /\ tips' = Candidates(1, commits[canonical_tip].stacks_height - d)
                /\ pc' = IF tips' = <<>> THEN "done" ELSE "align"
                /\ UNCHANGED error
    /\ UNCHANGED <<fixture, commits, parent_hashes, sortition_sats, last_height,
                   snapshots, payments, rounds, block_height, todo, block_hash,
                   canonical_tip, tip, scores, pointer, tips_at_same_height,
                   walk_steps>>
    /\ UNCHANGED <<block_headers, serverVars, reportVars>>

\* The tip the loop "for tip in tips" is at.
CurrentTip == tips[Len(tips_at_same_height) + 1]

\* The head of one iteration of "for tip in tips": the initial score.
AlignBegin ==
    /\ pc = "align"
    /\ Len(tips_at_same_height) < Len(tips)
    /\ scores' = DictSet(scores, CurrentTip,
                         Term(CurrentTip) * (max_height - commits[CurrentTip].stacks_height))
    /\ pointer' = CurrentTip
    /\ pc' = "align_walk"
    /\ UNCHANGED <<fixture, error, commits, parent_hashes, sortition_sats,
                   last_height, snapshots, payments, rounds, block_height, todo,
                   block_hash, canonical_tip, tip, max_fork_depth, tips,
                   tips_at_same_height, walk_steps>>
    /\ UNCHANGED <<block_headers, serverVars, reportVars>>

\* The loop test that compares with max_height.
KeepWalkingAboveMax(h) == commits[h].stacks_height > max_height

\* The loop test that also walks at min_height.
KeepWalkingAtMin(h) == commits[h].stacks_height >= min_height

\* commit.stacks_height > min_height
KeepWalking(h) == commits[h].stacks_height > min_height

\* One evaluation of "while commit.stacks_height > min_height" and the body or
\* the exit it leads to.  commits.get can have made commit None, and a commit
\* that never got a stacks_height compares with no number.
AlignStep ==
    /\ pc = "align_walk"
    /\ IF pointer = None
       THEN /\ Raise("AttributeError")
            /\ UNCHANGED <<scores, pointer, tips_at_same_height, walk_steps>>
       ELSE IF commits[pointer].stacks_height = None
       THEN /\ Raise("TypeError")
            /\ UNCHANGED <<scores, pointer, tips_at_same_height, walk_steps>>
       ELSE IF KeepWalking(pointer)
       THEN /\ scores' = [scores EXCEPT ![CurrentTip] = @ + Term(pointer)]
            /\ pointer' = Get(commits[pointer].parent)
            /\ walk_steps' = walk_steps + 1
            /\ UNCHANGED <<pc, error, tips_at_same_height>>
       ELSE /\ tips_at_same_height' = Append(tips_at_same_height, <<CurrentTip, pointer>>)
            /\ pointer' = None
            /\ pc' = "align"
            /\ UNCHANGED <<error, scores, walk_steps>>
    /\ UNCHANGED <<fixture, commits, parent_hashes, sortition_sats, last_height,
                   snapshots, payments, rounds, block_height, todo, block_hash,
                   canonical_tip, tip, max_fork_depth, tips>>
    /\ UNCHANGED <<block_headers, serverVars, reportVars>>

\* The loop over the tips is over.
Aligned == pc = "align" /\ Len(tips_at_same_height) = Len(tips)

\* any(commit != tips_at_same_height[0][1] for tip, commit in tips_at_same_height)
Diverged ==
    \E i \in 1..Len(tips_at_same_height) :
        tips_at_same_height[i][2] # tips_at_same_height[1][2]

\* The score update that reads the pointers held before they moved.
AddTermsBeforeAdvance(sc, held, moved) ==
    [t \in DOMAIN sc |->
        sc[t] + Term(held[CHOOSE i \in 1..Len(held) : held[i][1] = t][2])]

\* "Update the scores": tips_at_same_height already holds the moved pointers
\* and every score grows by the term of the pointer its tip holds now.
AddTerms(sc, held, moved) ==
    [t \in DOMAIN sc |->
        sc[t] + Term(moved[CHOOSE i \in 1..Len(moved) : moved[i][1] = t][2])]

\* One iteration of the loop that traces the ancestors back: every pointer
\* moves to its parent; a pointer that becomes None ends the function with
\* None; otherwise every score grows by the term of the new pointer.
TraceStep ==
    /\ Aligned
    /\ Diverged
    /\ LET moved == [i \in 1..Len(tips_at_same_height) |->
                        <<tips_at_same_height[i][1],
                          Get(commits[tips_at_same_height[i][2]].parent)>>]
       IN IF \E i \in 1..Len(moved) : moved[i][2] = None
          THEN /\ pc' = "done"
               /\ tips_at_same_height' = moved
               /\ UNCHANGED <<error, scores>>
          ELSE IF \E i \in 1..Len(moved) : commits[moved[i][2]].stacks_height = None
          THEN /\ Raise("TypeError")
               /\ tips_at_same_height' = moved
               /\ UNCHANGED scores
          ELSE /\ tips_at_same_height' = moved
               /\ scores' = AddTerms(scores, tips_at_same_height, moved)
               /\ UNCHANGED <<pc, error>>
    /\ walk_steps' = walk_steps + 1
    /\ UNCHANGED <<fixture, commits, parent_hashes, sortition_sats, last_height,
                   snapshots, payments, rounds, block_height, todo, block_hash,
                   canonical_tip, tip, max_fork_depth, tips, pointer>>
    /\ UNCHANGED <<block_headers, serverVars, reportVars>>

\* The choice of the last key, in insertion order, that no other undercuts.
MinScoreLast(order, sc) ==
    order[Max({i \in 1..Len(order) : \A j \in 1..Len(order) : sc[order[i]] <= sc[order[j]]})]

\* min(scores, key=scores.get): the first key, in insertion order, whose score
\* no other key undercuts.
MinScore(order, sc) ==
    order[Min({i \in 1..Len(order) : \A j \in 1..Len(order) : sc[order[i]] <= sc[order[j]]})]

\* The pointers agree: get_score_to_common_ancestor returns the scores and
\* mark_next_tip marks the tip of the least score.
TraceReturn ==
    /\ Aligned
    /\ ~Diverged
    /\ commits' = [commits EXCEPT ![MinScore(tips, scores)].next_tip = TRUE]
    /\ pc' = "done"
    /\ UNCHANGED <<fixture, error, parent_hashes, sortition_sats, last_height,
                   snapshots, payments, rounds, block_height, todo, block_hash,
                   canonical_tip, tip, max_fork_depth, tips, scores, pointer,
                   tips_at_same_height, walk_steps>>
    /\ UNCHANGED <<block_headers, serverVars, reportVars>>

\* ----------------------------------------------------- run_server.new_block
\* Addresses a request can come from.
RemoteAddrs == {"127.0.0.1", "10.0.0.7"}

\* A request reaches the handler: abort(403) unless it comes from localhost.
Receive(r) ==
    /\ request[r] = "idle"
    /\ \E remote_addr \in RemoteAddrs :
        IF remote_addr # "127.0.0.1"
        THEN /\ request' = [request EXCEPT ![r] = "answered"]
             /\ response' = [response EXCEPT ![r] = 403]
        ELSE /\ request' = [request EXCEPT ![r] = "received"]
             /\ UNCHANGED response
    /\ UNCHANGED <<lock, ran, contended, runVars, reportVars>>

\* lock.acquire() that blocks: the request waits for the lock.
AcquireBlocking(r) ==
    /\ request[r] = "received"
    /\ IF ~lock
       THEN /\ lock' = TRUE
            /\ request' = [request EXCEPT ![r] = "running"]
            /\ ran' = ran \cup {r}
            /\ UNCHANGED <<response, contended>>
       ELSE /\ contended' = contended \cup {r}
            /\ UNCHANGED <<lock, request, response, ran>>
    /\ UNCHANGED <<runVars, reportVars>>

\* lock.acquire(blocking=False): the lock is taken and run_command_line
\* starts, or the request is answered 429 at once.
Acquire(r) ==
    /\ request[r] = "received"
    /\ IF ~lock
       THEN /\ lock' = TRUE
            /\ request' = [request EXCEPT ![r] = "running"]
            /\ ran' = ran \cup {r}
            /\ UNCHANGED <<response, contended>>
       ELSE /\ request' = [request EXCEPT ![r] = "answered"]
            /\ response' = [response EXCEPT ![r] = 429]
            /\ contended' = contended \cup {r}
            /\ UNCHANGED <<lock, ran>>
    /\ UNCHANGED <<runVars, reportVars>>

\* run_command_line ends: it returns or raises.
RunEnd(r) ==
    /\ request[r] = "running"
    /\ \E outcome \in {"returned", "raised"} :
        request' = [request EXCEPT ![r] = outcome]
    /\ UNCHANGED <<lock, response, ran, contended, runVars, reportVars>>

\* The handler without its finally clause: the lock is released after a run
\* that returned, and an exception leaves the handler with the lock held.
ReleaseOnReturn(r) ==
    /\ request[r] \in {"returned", "raised"}
    /\ lock' = (request[r] = "raised")
    /\ response' = [response EXCEPT ![r] = IF request[r] = "returned" THEN 200 ELSE 500]
    /\ request' = [request EXCEPT ![r] = "answered"]
    /\ UNCHANGED <<ran, contended, runVars, reportVars>>

\* The finally clause releases the lock; the request is answered 200, or 500
\* when the exception leaves the handler.
Release(r) ==
    /\ request[r] \in {"returned", "raised"}
    /\ lock' = FALSE
    /\ response' = [response EXCEPT ![r] = IF request[r] = "returned" THEN 200 ELSE 500]
    /\ request' = [request EXCEPT ![r] = "answered"]
    /\ UNCHANGED <<ran, contended, runVars, reportVars>>

NextServer ==
    \/ \E r \in Requests : Receive(r)
    \/ \E r \in Requests : Acquire(r)
    \/ \E r \in Requests : RunEnd(r)
    \/ \E r \in Requests : Release(r)

\* The observer: requests arrive and are handled by concurrent threads.
InitServer == Init /\ fixture = "any"

SpecServer == InitServer /\ [][NextServer]_vars

\* ------------------------------------------------------------ compute_stats
\* 1000000.0, the micro-STX of one STX.
MicroStx == 1000000

\* The string compute_stats returns for a price ratio without earnings, the
\* one-character infinity sign, spelled here in ASCII.
Infinite == "inf"

\* The raw counters collect_stats can hand over for a group of a window of n
\* burn blocks: at most one win per block, canonical wins among the wins,
\* earnings only from canonical wins.
StatsInputs(n) ==
    { s \in [ wins : 0..n, canonical : 0..n, spend : {0, 2}, btc_fees : {0, 1},
              coinbase_earned : {0, MicroStx},
              fees_earned : {0, MicroStx \div 2} ] :
        /\ s.canonical <= s.wins
        /\ s.canonical = 0 => (s.coinbase_earned = 0 /\ s.fees_earned = 0) }

\* The float n / d, kept as the pair of its terms.
Ratio(n, d) == <<n, d>>

\* round(n / d): to the nearest integer, a half to the even one.
RoundHalfEven(n, d) ==
    LET q == n \div d
        r == n % d
    IN IF 2 * r < d THEN q
       ELSE IF 2 * r > d THEN q + 1
       ELSE IF q % 2 = 0 THEN q ELSE q + 1

\* f"{sats / (total_earned / 1000000.0):.2f}": the quotient in hundredths, to
\* the nearest, written with two decimals.
Format2f(sats, total_earned) ==
    LET hundredths == (2 * sats * 100 * MicroStx + total_earned) \div (2 * total_earned)
        cents == hundredths % 100
    IN ToString(hundredths \div 100) \o "."
         \o (IF cents < 10 THEN "0" ELSE "") \o ToString(cents)

\* "price_ratio": the formatted quotient if total_earned > 0, else "0" if
\* stats["spend"] == 0, else the infinity sign.
PriceRatio(s) ==
    LET total_earned == s.coinbase_earned + s.fees_earned
    IN IF total_earned > 0 THEN Format2f(s.spend + s.btc_fees, total_earned)
       ELSE IF s.spend = 0 THEN "0"
       ELSE Infinite

\* The dict compute_stats(stats, num_blocks) returns (spend_by_block is
\* passed through and left out here).
compute_stats(s, n) ==
    [ spend |-> s.spend,
      btc_fees |-> s.btc_fees,
      total_spend |-> s.spend + s.btc_fees,
      coinbase_earned |-> s.coinbase_earned,
      fees_earned |-> s.fees_earned,
      avg_spend_per_block |-> RoundHalfEven(s.spend, n),
      win_percentage |-> Ratio(s.wins, n),
      canonical_percentage |-> Ratio(s.canonical, n),
      orphan_rate |-> IF s.wins > 0 THEN Ratio(s.wins - s.canonical, s.wins)
                      ELSE Ratio(0, 1),
      price_ratio |-> PriceRatio(s),
      total_earned |-> s.coinbase_earned + s.fees_earned ]

\* collect_stats calls compute_stats for a group.
ComputeStats ==
    /\ DOMAIN stats # {}
    /\ DOMAIN computed = {}
    /\ computed' = compute_stats(stats, num_blocks)
    /\ UNCHANGED <<stats, num_blocks, runVars, serverVars, alertVars>>

NextStats == ComputeStats

\* A group's counters over a window of one to NumBlocks + 1 burn blocks.
InitStats ==
    /\ fixture = "any"
    /\ RunIdle
    /\ ServerIdle
    /\ AlertsIdle
    /\ num_blocks \in 1..(NumBlocks + 1)
    /\ stats \in StatsInputs(num_blocks)
    /\ computed = <<>>

\* compute_stats applied to the counters of a group.
SpecStats == InitStats /\ [][NextStats]_vars

\* --------------------------------------------------- send_high_spend_alerts
\* miner_config.get("alert_group_spend_sats"), with alert_webhook set.
alert_group_spend_sats == 5000

\* The groups of stats["group_stats"], in the order of that dict.
Groups == <<"g1", "g2">>

\* What a group spent at a burn height: nothing (it has no commit there), the
\* threshold, or more than the threshold.
SpendLevels == {0, alert_group_spend_sats, alert_group_spend_sats + 1}

\* group_stats.get("spend_by_block").items() of a group for the window that
\* ends at tip_height: the heights the group has commits at, ascending.
SpendByBlock(g, tip_height) ==
    LET hs == SortedHeights({h \in Heights : h <= tip_height /\ chain_spend[<<g, h>>] > 0})
    IN [i \in 1..Len(hs) |-> <<g, hs[i], chain_spend[<<g, hs[i]>>]>>]

\* The head of send_high_spend_alerts: start_block is read once from the
\* configuration; the two loops run over the groups and their blocks.
AlertBegin ==
    /\ alert_pc = "idle"
    /\ calls < MaxCalls
    /\ calls' = calls + 1
    /\ start_block' = DictGet(miner_config, "last_alert_block_high", 0)
    /\ \E tip_height \in Heights :
          pending' = SpendByBlock(Groups[1], tip_height) \o SpendByBlock(Groups[2], tip_height)
    /\ alert_pc' = "loop"
    /\ UNCHANGED <<chain_spend, miner_config, posted, reposted>>
    /\ UNCHANGED <<runVars, serverVars, statsVars>>

\* One iteration of the inner loop: a block at or below start_block is
\* skipped; otherwise an alert is POSTed if the spend exceeds the threshold,
\* and last_alert_block_high is set to this block and stored.
AlertStep ==
    /\ alert_pc = "loop"
    /\ pending # <<>>
    /\ LET group == Head(pending)[1]
           height == Head(pending)[2]
           spend == Head(pending)[3]
       IN IF height <= start_block
          THEN UNCHANGED <<miner_config, posted, reposted>>
          ELSE /\ IF spend > alert_group_spend_sats
                  THEN /\ posted' = posted \cup {<<group, height>>}
                       /\ reposted' = IF <<group, height>> \in posted
                                      THEN reposted \cup {<<group, height>>}
                                      ELSE reposted
                  ELSE UNCHANGED <<posted, reposted>>
               /\ miner_config' = DictSet(miner_config, "last_alert_block_high", height)
    /\ pending' = Tail(pending)
    /\ UNCHANGED <<chain_spend, alert_pc, start_block, calls>>
    /\ UNCHANGED <<runVars, serverVars, statsVars>>

\* The loops are over and the function returns.
AlertReturn ==
    /\ alert_pc = "loop"
    /\ pending = <<>>
    /\ alert_pc' = "idle"
    /\ UNCHANGED <<chain_spend, miner_config, start_block, pending, posted,
                   reposted, calls>>
    /\ UNCHANGED <<runVars, serverVars, statsVars>>

NextAlerts ==
    \/ AlertBegin
    \/ AlertStep
    \/ AlertReturn

\* A chain on which each group spent something or nothing at each height.
InitAlerts ==
    /\ fixture = "any"
    /\ RunIdle
    /\ ServerIdle
    /\ StatsIdle
    /\ chain_spend \in [{<<Groups[i], h>> : i \in 1..Len(Groups), h \in Heights} -> SpendLevels]
    /\ AlertsStart

\* Successive calls of send_high_spend_alerts on one configuration.
SpecAlerts == InitAlerts /\ [][NextAlerts]_vars

\* ------------------------------------------------------------ specification
Next ==
    \/ BuildStep
    \/ BuildReturn
    \/ RoundBegin
    \/ MarkCommitWon
    \/ MarkCommitLost
    \/ MarkTip
    \/ WalkStep
    \/ WalkReturn
    \/ ScoreBegin
    \/ AlignBegin
    \/ AlignStep
    \/ TraceStep
    \/ TraceReturn

Spec == Init /\ [][Next]_vars

\* -------------------------------------------------------------- properties
\* mark_canonical_blocks has returned.
Marked == pc \in {"next_tip", "align", "align_walk", "done"}

\* The commits reached from h by at most n parent links, h included.
RECURSIVE ChainN(_, _)
ChainN(h, n) ==
    IF h = None \/ h \notin Hashes \/ n = 0 THEN {}
    ELSE {h} \cup ChainN(commits[h].parent, n - 1)

\* h and its ancestors in the window.
Chain(h) == ChainN(h, Len(commits))

\* The commits of a burn height.
AtHeight(height) == {h \in Hashes : commits[h].burn_block_height = height}

\* The snapshots row read for the round of a commit.
SnapOf(h) == snapshots[commits[h].burn_block_height]

\* The commit is the winner its round's snapshots row declares.
Declared(h) == SnapOf(h).winning_block_txid = commits[h].txid

\* C1: after mark_canonical_blocks, exactly the declared tip has tip = true,
\* the canonical commits are exactly the declared tip and its ancestors by
\* parent links, and that path ends at a commit whose parent is none.
C1_CanonicalPath ==
    Marked =>
        /\ canonical_tip \in Hashes
        /\ {h \in Hashes : commits[h].tip} = {canonical_tip}
        /\ {h \in Hashes : commits[h].canonical} = Chain(canonical_tip)
        /\ \E root \in Chain(canonical_tip) : commits[root].parent = None

\* A marked window whose canonical path has a parent link and leaves a commit out.
C1_Witness ==
    /\ Marked
    /\ Cardinality(Chain(canonical_tip)) >= 2
    /\ \E h \in Hashes : ~commits[h].canonical

\* C2 as stated: after mark_canonical_blocks every canonical commit of a fully
\* processed round (stacks_block_height > 0) has won = true, whatever the
\* round outcome source declares.
C2_CanonicalWon ==
    Marked =>
        \A h \in Hashes :
            (commits[h].canonical /\ SnapOf(h).stacks_block_height > 0)
                => commits[h].won

\* C2 amended: the same, for outcome sources whose declared tip and all of its
\* ancestors in the window are the declared winners of their rounds.
C2_CanonicalWonOfWinners ==
    (Marked /\ \A h \in Chain(canonical_tip) : Declared(h)) =>
        \A h \in Hashes :
            (commits[h].canonical /\ SnapOf(h).stacks_block_height > 0)
                => commits[h].won

\* A canonical path of two declared winners in processed rounds beside a
\* commit that is not canonical.
C2_Witness ==
    /\ Marked
    /\ \A h \in Chain(canonical_tip) :
            Declared(h) /\ SnapOf(h).stacks_block_height > 0
    /\ Cardinality(Chain(canonical_tip)) >= 2
    /\ \E h \in Hashes : ~commits[h].canonical

\* C3: after mark_canonical_blocks every burn height has at most one commit
\* with won = true, and exactly one when the declared winner of the height is
\* among its commits.
C3_OneWinnerPerHeight ==
    Marked =>
        \A height \in {commits[h].burn_block_height : h \in Hashes} :
            LET won == {h \in AtHeight(height) : commits[h].won}
            IN /\ Cardinality(won) <= 1
               /\ (\E h \in AtHeight(height) : Declared(h)) => Cardinality(won) = 1

\* A height of two commits with one winner, and a height whose declared
\* winner is not in the window.
C3_Witness ==
    /\ Marked
    /\ \E height \in DOMAIN snapshots :
        /\ Cardinality(AtHeight(height)) >= 2
        /\ \E h \in AtHeight(height) : commits[h].won
    /\ \E height \in DOMAIN snapshots :
        /\ AtHeight(height) # {}
        /\ snapshots[height].winning_block_txid = Absent

\* C4: after mark_next_tip at most one commit has next_tip = true, and it is a
\* candidate: potential_tip = true and stacks_height >=
\* commits[canonical_tip].stacks_height - max_fork_depth.
C4_NextTipIsCandidate ==
    LET next == {h \in Hashes : commits[h].next_tip}
    IN /\ Cardinality(next) <= 1
       /\ \A h \in next :
            /\ pc = "done"
            /\ commits[h].potential_tip
            /\ commits[h].stacks_height >=
                   commits[canonical_tip].stacks_height - max_fork_depth

\* A prediction among two candidates while a third potential tip lies below
\* the fork depth.
C4_Witness ==
    /\ pc = "done"
    /\ \E h \in Hashes : commits[h].next_tip
    /\ \E h \in Hashes :
        /\ commits[h].potential_tip
        /\ commits[h].stacks_height <
               commits[canonical_tip].stacks_height - max_fork_depth

\* The ancestors, themselves included, that all candidate tips share.
SharedAncestors == {a \in Hashes : \A i \in 1..Len(tips) : a \in Chain(tips[i])}

\* C5: when two or more candidate tips share no ancestor inside the window,
\* fork scoring does not fail and ends without a prediction, whatever the
\* stacks heights of the candidates are.
C5_NoAncestorNoPrediction ==
    (Len(tips) >= 2 /\ SharedAncestors = {}) =>
        /\ pc # "failed"
        /\ pc = "done" => \A h \in Hashes : ~commits[h].next_tip

\* The payments lookup of the commit's round found no row.
PaymentMissing(h) ==
    /\ commits[h].burn_block_height \in DOMAIN snapshots
    /\ SnapOf(h).stacks_block_height > 0
    /\ DictGet(payments, SnapOf(h).consensus_hash, "row") = "none"

\* C6: when a round is fully processed but payments holds no row for it, the
\* marking does not fail and the winner's earnings and resource usage fields
\* stay zero.
C6_MissingPaymentStaysZero ==
    \A h \in Hashes :
        (commits[h].won /\ PaymentMissing(h)) =>
            /\ pc # "failed"
            /\ commits[h].coinbase_earned = 0
            /\ commits[h].fees_earned = 0
            /\ commits[h].read_length = 0
            /\ commits[h].read_count = 0
            /\ commits[h].write_length = 0
            /\ commits[h].write_count = 0
            /\ commits[h].runtime = 0
            /\ commits[h].block_size = 0

\* C7: at most one request runs run_command_line at any time, and a request
\* whose lock.acquire found the lock held is answered 429 in that step and
\* never runs run_command_line.
C7_OneRunFailFast ==
    /\ Cardinality({r \in Requests : request[r] = "running"}) <= 1
    /\ \A r \in contended :
        /\ request[r] = "answered"
        /\ response[r] = 429
        /\ r \notin ran

\* One request is running while another has been answered busy.
C7_Witness ==
    /\ \E r \in Requests : request[r] = "running"
    /\ \E r \in contended : response[r] = 429

\* The parent of every commit is none or a commit scanned earlier at a lower
\* burn height, and every commit reaches a root in at most NumBlocks links.
Forest ==
    \A h \in Hashes :
        /\ \/ commits[h].parent = None
           \/ /\ commits[h].parent \in Hashes
              /\ commits[h].parent < h
              /\ commits[commits[h].parent].burn_block_height
                     < commits[h].burn_block_height
        /\ Cardinality(ChainN(h, NumBlocks + 1)) <= NumBlocks + 1
        /\ \E root \in ChainN(h, NumBlocks + 1) : commits[root].parent = None

\* C8: for records scanned in ascending burn height with unique header
\* hashes the parent links form a forest as above, and the canonical walk and
\* the walks of fork scoring come to an end.
C8_ParentLinksTerminate ==
    /\ []Forest
    /\ (pc = "walk") ~> (pc = "next_tip")
    /\ (pc \in {"align", "align_walk"}) ~> (pc \in {"done", "failed"})

\* A chain of NumBlocks links has been walked down to its root.
C8_Witness ==
    /\ pc = "next_tip"
    /\ \E h \in Hashes :
        /\ commits[h].canonical
        /\ Cardinality(Chain(h)) = NumBlocks + 1

\* The scenario's expected outcome.
ScenarioOutcome ==
    /\ {h \in Hashes : commits[h].won} = {2, 4}
    /\ ~commits[2].potential_tip
    /\ commits[4].potential_tip
    /\ {h \in Hashes : commits[h].canonical} = {1, 2, 4}
    /\ sortition_sats[commits[2].sortition_id] = 2500
    /\ {h \in Hashes : commits[h].next_tip} = {4}

\* C9: the scenario run does not fail and ends with the expected outcome,
\* whether C's parent is A or none (for post-processing sources that hold a
\* payments row for every processed round).
C9_Scenario ==
    (fixture # "any" /\ \A k \in DOMAIN payments : payments[k] = "row") =>
        /\ pc # "failed"
        /\ pc = "done" => ScenarioOutcome

\* C10: with exactly one candidate, scoring does not fail, follows no parent
\* link, and mark_next_tip sets next_tip on the candidate.
C10_SingleCandidate ==
    Len(tips) = 1 =>
        /\ pc \in {"align", "align_walk", "done"}
        /\ walk_steps = 0
        /\ pc = "done" => commits[tips[1]].next_tip

\* A prediction of the single candidate, a window root, in a window of
\* several commits.
C10_Witness ==
    /\ pc = "done"
    /\ Len(tips) = 1
    /\ commits[tips[1]].next_tip
    /\ commits[tips[1]].parent = None
    /\ Len(commits) >= 2

\* C11: for a group without earnings compute_stats returns the
\* infinite sentinel whenever spend or btc_fees is non-zero and "0" when spend
\* and earnings are both zero, and the orphan rate is 0 without wins.
C11_ZeroEarningsRatio ==
    DOMAIN computed # {} =>
        /\ (computed.total_earned = 0 /\ (stats.spend # 0 \/ stats.btc_fees # 0))
               => computed.price_ratio = Infinite
        /\ (computed.total_earned = 0 /\ stats.spend = 0)
               => computed.price_ratio = "0"
        /\ stats.wins = 0 => computed.orphan_rate[1] = 0

\* The sum of spend over the commits from h on, in dict order, that carry
\* the sortition_id.
RECURSIVE RoundSpend(_, _)
RoundSpend(h, sortition_id) ==
    IF h > Len(commits) THEN 0
    ELSE (IF commits[h].sortition_id = sortition_id THEN commits[h].spend ELSE 0)
         + RoundSpend(h + 1, sortition_id)

\* C12: after get_block_commits_with_parents the total returned for every
\* sortition_id equals the sum of spend over the commits of the returned dict
\* that carry it, and the sortition_id of every returned commit has a total.
C12_RoundTotals ==
    pc # "build" =>
        /\ \A sid \in DOMAIN sortition_sats :
                sortition_sats[sid] = RoundSpend(1, sid)
        /\ \A h \in Hashes : commits[h].sortition_id \in DOMAIN sortition_sats

\* The score a tip starts with: its term times its distance to max_height.
InitialScore(t) == Term(t) * (max_height - commits[t].stacks_height)

\* The sum of the terms of the commits on the parent chain from h down to its
\* ancestor a, both included.
RECURSIVE PathTerms(_, _)
PathTerms(h, a) ==
    IF h = a THEN Term(a) ELSE Term(h) + PathTerms(commits[h].parent, a)

\* The pointer the alignment loop leaves a tip with: the first commit of its
\* parent chain whose stacks_height is not above min_height.
RECURSIVE AlignPoint(_)
AlignPoint(h) ==
    IF commits[h].stacks_height > min_height THEN AlignPoint(commits[h].parent) ELSE h

\* C13 as stated: in the lock-step phase each round adds to every candidate's
\* score the term of the pointer held before advancing and then advances the
\* pointers: whenever the pointers are compared, each score is the initial
\* score plus the terms of the commits from the tip down to, and without, the
\* pointer held (on convergence the common ancestor).
C13_AddThenAdvance ==
    Aligned =>
        \A i \in 1..Len(tips) :
            scores[tips[i]] =
                InitialScore(tips[i])
                + PathTerms(tips[i], tips_at_same_height[i][2])
                - Term(tips_at_same_height[i][2])

\* C13 amended: each round of the lock-step phase first advances every
\* pointer and then adds the term of the pointer now held: whenever the
\* pointers are compared, each score is the initial score plus the terms of the
\* commits from the tip down to and with the pointer held (on convergence the
\* common ancestor), without the term of the pointer alignment ended at.
C13_AdvanceThenAdd ==
    Aligned =>
        \A i \in 1..Len(tips) :
            scores[tips[i]] =
                InitialScore(tips[i])
                + PathTerms(tips[i], tips_at_same_height[i][2])
                - Term(AlignPoint(tips[i]))

\* Two candidates have converged after a lock-step round, and the term of a
\* pointer alignment ended at differs from the term of the common ancestor.
C13_Witness ==
    /\ Aligned
    /\ ~Diverged
    /\ Len(tips) >= 2
    /\ \E i \in 1..Len(tips) :
        /\ AlignPoint(tips[i]) # tips_at_same_height[i][2]
        /\ Term(AlignPoint(tips[i])) # Term(tips_at_same_height[i][2])

\* C14: for every commit that is not the winner of its round and whose parent
\* is a commit of the window, the marking does not fail at it and leaves
\* stacks_height = parent.stacks_height + 1, whatever the parent is.
C14_LostHeightFromParent ==
    /\ ~ /\ pc = "failed"
         /\ todo # <<>>
         /\ ~IsWinner(snapshots[block_height], Head(todo))
         /\ commits[Head(todo)].parent \in Hashes
    /\ Marked =>
          \A h \in Hashes :
              (~Declared(h) /\ commits[h].parent \in Hashes) =>
                  /\ commits[commits[h].parent].stacks_height # None
                  /\ commits[h].stacks_height =
                         commits[commits[h].parent].stacks_height + 1

\* The alignment loop of a tip ends: its pointer joins tips_at_same_height.
AlignmentEnds == pc = "align_walk" /\ pc' = "align"

\* The pointer the alignment loop has just left for its tip.
LeftPointer == tips_at_same_height'[Len(tips_at_same_height')][2]

WonChildren(h) == {c \in Hashes : commits[c].won /\ commits[c].parent = h}

\* C16: at every step of the marking and after it, a commit has potential_tip
\* = true exactly when it has won = true and no commit with won = true names
\* it as parent; so a potential_tip a winning child cleared is never set again.
C16_PotentialTipIffNoWonChild ==
    \A h \in Hashes :
        commits[h].potential_tip <=> (commits[h].won /\ WonChildren(h) = {})

\* After the marking: a winner whose potential_tip a winning child cleared,
\* that child as potential tip, and a commit that did not win.
C16_Witness ==
    /\ Marked
    /\ \E h \in Hashes :
        /\ commits[h].won
        /\ ~commits[h].potential_tip
        /\ \E c \in WonChildren(h) : commits[c].potential_tip
    /\ \E h \in Hashes : ~commits[h].won

\* The snapshots row of the height has been read and names a winner that no
\* commit of the height in the window matches.
NoWinnerHere(height) ==
    /\ height \in DOMAIN snapshots
    /\ \A h \in AtHeight(height) :
           snapshots[height].winning_block_txid # commits[h].txid

\* The loop over the commits of the height has been left.
RoundDone(height) ==
    /\ height \in DOMAIN snapshots
    /\ (block_height # height \/ todo = <<>>)

C18_LeastScoreFirstScanned ==
    \A h \in Hashes :
        commits[h].next_tip =>
            /\ \E i \in 1..Len(tips) : tips[i] = h
            /\ \A i \in 1..Len(tips) :
                /\ scores[h] <= scores[tips[i]]
                /\ scores[tips[i]] = scores[h] => h <= tips[i]

\* A prediction among candidates of which a later scanned one has the same
\* score as the chosen one.
C18_Witness ==
    /\ pc = "done"
    /\ \E h \in Hashes :
        /\ commits[h].next_tip
        /\ \E i \in 1..Len(tips) :
            /\ tips[i] > h
            /\ scores[tips[i]] = scores[h]
        /\ \E i \in 1..Len(tips) :
            /\ tips[i] > h
            /\ commits[tips[i]].burn_block_height > commits[h].burn_block_height

\* C19: no (group, burn height) pair gets a high-spend alert twice, and after
\* every call the stored last_alert_block_high is at least every burn height
\* an alert has been sent for.
C19_AlertOnce ==
    /\ reposted = {}
    /\ alert_pc = "idle" =>
          \A p \in posted : p[2] <= DictGet(miner_config, "last_alert_block_high", 0)

\* The requests inside the try statement of new_block: run_command_line is
\* running, or has returned or raised and the finally clause is next.
InTry == {r \in Requests : request[r] \in {"running", "returned", "raised"}}

\* C20: the lock is held exactly while a request is inside the try statement
\* that runs the recomputation, so it is free once a recomputation has ended
\* and its handler has left the statement, by return or by exception; and a
\* request is answered 429 only while another request is inside it.
C20_LockOnlyWhileRunning ==
    /\ [](lock <=> InTry # {})
    /\ [][\A r \in Requests :
            (response[r] # 429 /\ response'[r] = 429) => InTry \ {r} # {}]_vars

\* A recomputation failed and was answered 500, another one completed, and a
\* later request has been accepted and is running.
C20_Witness ==
    /\ \E r \in Requests : response[r] = 500
    /\ \E r \in Requests : response[r] = 200
    /\ \E r \in Requests : request[r] = "running"

\* The run with every step it can take eventually taken.
FairSpec == Spec /\ WF_vars(Next)

====
